---- MODULE Spec2Model ----
\* Engine descriptors of src/engines.py: construction, _set_parent (attach),
\* get_params, name and the column accessors, as a state machine over one
\* descriptor and the tables it can be attached to.
EXTENDS Integers, Sequences, FiniteSets, TLC

\* eng          the descriptor (NoEngine before construction)
\* tableEngine  per table: table.engine is the descriptor
\* phase        NoEngine, Declared, Failed (_set_parent was called and never
\*              succeeded) or Attached (some _set_parent call succeeded)
\* attachCalls  number of _set_parent calls so far, counted up to two
\* res          the last call and what it returned or raised
\* ctorArgs     the arguments of the last constructor call
VARIABLES eng, tableEngine, phase, attachCalls, res, ctorArgs

vars == <<eng, tableEngine, phase, attachCalls, res, ctorArgs>>

\* ---------------------------------------------------------------- bounds
MaxKeyLen == 2
MaxSumLen == 1

\* ---------------------------------------------------------------- values
\* A Python str is a sequence of fragments; None-able arguments are wrapped.
NoneStr == [some |-> FALSE, chars |-> <<>>]
SomeStr(s) == [some |-> TRUE, chars |-> s]
NoneInt == [some |-> FALSE, int |-> 0]
SomeInt(n) == [some |-> TRUE, int |-> n]

\* bool(x) of an optional str: None and "" are falsy
Truthy(o) == o.some /\ o.chars /= <<>>

\* the tables a descriptor can be handed to, and their column names
Tables == {"t1", "t2"}
Names == {"a", "b"}
TableColumns(t) == IF t = "t1" THEN {"a", "b"} ELSE {"a"}

\* values that can sit in a rendered slot or a parameter list
NoneVal == [kind |-> "None", name |-> "", tbl |-> ""]
Column(t, n) == [kind |-> "column", name |-> n, tbl |-> t]
StrVal(s) == [kind |-> "str", chars |-> s]
IntVal(n) == [kind |-> "int", int |-> n]
TupleVal(s) == [kind |-> "tuple", elems |-> s]

\* declaration inputs: a bare column name, a column-free SQL expression
\* (text), or an SQL expression over a Column object. The descriptor is
\* declared before its table, so no Column object it names belongs to a Table
\* yet when the descriptor is constructed; tbl names the table the Column
\* object ends up in.
NameItem(n) == [kind |-> "name", name |-> n, tbl |-> ""]
TextExpr(x) == [kind |-> "text", name |-> x, tbl |-> ""]
ColExpr(t, n) == [kind |-> "colexpr", name |-> n, tbl |-> t]

Items == {NameItem("a"), NameItem("b"), TextExpr("x"), ColExpr("t1", "a")}
SumItems == {NameItem("b"), TextExpr("x")}

SeqsUpTo(S, n) == UNION {[1..k -> S] : k \in 0..n}

IsClauseElement(e) == e.kind \in {"text", "colexpr", "column"}

\* ---------------------------------------------------------------- escaper
EscapeChar(c) == IF c = "'" THEN <<"\\", "'">>
                 ELSE IF c = "\\" THEN <<"\\", "\\">>
                 ELSE <<c>>

RECURSIVE EscapeChars(_)
EscapeChars(s) == IF s = <<>> THEN <<>>
                  ELSE EscapeChar(Head(s)) \o EscapeChars(Tail(s))

escape_string(s) == <<"'">> \o EscapeChars(s) \o <<"'">>

\* ---------------------------------------------------------------- column collections
\* ColumnCollection.add: keyed by column name; an existing key keeps its
\* position and takes the new column
ColumnsAdd(cols, c) ==
    IF \E i \in 1..Len(cols) : cols[i].name = c.name
    THEN [i \in 1..Len(cols) |-> IF cols[i].name = c.name THEN c ELSE cols[i]]
    ELSE Append(cols, c)

\* the add_element of _extract_col_expression_collection
AddElement(expr) ==
    IF expr.kind = "name" THEN expr
    ELSE IF expr.kind = "colexpr" THEN Column(expr.tbl, expr.name)
    ELSE NoneVal

RECURSIVE PendingOf(_)
PendingOf(expressions) ==
    IF expressions = <<>> THEN <<>>
    ELSE LET add_element == AddElement(Head(expressions))
         IN  (IF add_element /= NoneVal THEN <<add_element>> ELSE <<>>)
             \o PendingOf(Tail(expressions))

NoObj == [isNone |-> TRUE, expressions |-> <<>>, pending |-> <<>>, columns |-> <<>>]

TableCol(column) ==
    [isNone |-> FALSE, expressions |-> <<>>,
     pending |-> <<NameItem(column)>>, columns |-> <<>>]

KeysExpressionOrColumn(expressions) ==
    [isNone |-> FALSE, expressions |-> expressions,
     pending |-> PendingOf(expressions), columns |-> <<>>]

\* resolving the pending arguments against a table, one at a time; a name the
\* table lacks stops the loop with the columns added so far
RECURSIVE BindPending(_, _, _)
BindPending(pending, columns, table) ==
    IF pending = <<>> THEN [columns |-> columns, ok |-> TRUE]
    ELSE LET col == Head(pending)
         IN  IF col.kind = "name" /\ col.name \notin TableColumns(table)
             THEN [columns |-> columns, ok |-> FALSE]
             ELSE BindPending(Tail(pending),
                              ColumnsAdd(columns,
                                         IF col.kind = "name"
                                         THEN Column(table, col.name)
                                         ELSE col),
                              table)

CanBind(obj, table) == BindPending(obj.pending, obj.columns, table).ok

ColSetParent(obj, table) ==
    [obj EXCEPT !.columns = BindPending(obj.pending, obj.columns, table).columns]

get_column_ok(tc) == tc.columns /= <<>>
get_column(tc) == tc.columns[1]

Max(a, b) == IF a >= b THEN a ELSE b

get_expressions_or_columns(k) ==
    [i \in 1..Max(Len(k.expressions), Len(k.columns)) |->
        LET expr == IF i <= Len(k.expressions) THEN k.expressions[i] ELSE NoneVal
            colexpr == IF i <= Len(k.columns) THEN k.columns[i] ELSE NoneVal
        IN  IF IsClauseElement(expr) THEN expr ELSE colexpr]

\* ---------------------------------------------------------------- engines
DefaultIndexGranularity == 8192
DefaultNumLayers == 16
DefaultMinTime == 10
DefaultMaxTime == 100
DefaultMinRows == 10000
DefaultMaxRows == 1000000
DefaultMinBytes == 10000000
DefaultMaxBytes == 100000000

NoEngine == [cls |-> "NoEngine", table |-> ""]

MergeTreeFamily == {"MergeTree", "CollapsingMergeTree", "SummingMergeTree"}

\* the raise of MergeTree.__init__
ReplicaMismatch(replica_name, replica_table_path) ==
    \/ (Truthy(replica_table_path) /\ ~Truthy(replica_name))
    \/ (~Truthy(replica_table_path) /\ Truthy(replica_name))

\* a constructor that tests index_granularity for truth instead of for None
MergeTreeTruthyGranularity(cls, date_col, key_expressions, sampling, index_granularity, replica_name, replica_table_path) ==
    [cls |-> cls,
     table |-> "",
     date_col |-> TableCol(date_col),
     key_cols |-> KeysExpressionOrColumn(key_expressions),
     sampling |-> IF sampling /= <<>> THEN KeysExpressionOrColumn(sampling)
                  ELSE NoObj,
     index_granularity |-> IF index_granularity.some /\ index_granularity.int /= 0
                           THEN index_granularity.int
                           ELSE DefaultIndexGranularity,
     replica_name |-> replica_name,
     replica_table_path |-> replica_table_path,
     sign_col |-> NoObj,
     summing_cols |-> NoObj]

\* MergeTree.__init__; sampling is <<>> for None, else the one item
MergeTree(cls, date_col, key_expressions, sampling, index_granularity, replica_name, replica_table_path) ==
    [cls |-> cls,
     table |-> "",
     date_col |-> TableCol(date_col),
     key_cols |-> KeysExpressionOrColumn(key_expressions),
     sampling |-> IF sampling /= <<>> THEN KeysExpressionOrColumn(sampling)
                  ELSE NoObj,
     index_granularity |-> IF index_granularity.some THEN index_granularity.int
                           ELSE DefaultIndexGranularity,
     replica_name |-> replica_name,
     replica_table_path |-> replica_table_path,
     sign_col |-> NoObj,
     summing_cols |-> NoObj]

CollapsingMergeTree(date_col, key_expressions, sign_col, sampling, index_granularity) ==
    [MergeTree("CollapsingMergeTree", date_col, key_expressions, sampling,
               index_granularity, NoneStr, NoneStr)
     EXCEPT !.sign_col = TableCol(sign_col)]

\* summing_cols is [some |-> FALSE, ...] for None, else the list given
SummingMergeTree(date_col, key_expressions, summing_cols, sampling, index_granularity) ==
    [MergeTree("SummingMergeTree", date_col, key_expressions, sampling,
               index_granularity, NoneStr, NoneStr)
     EXCEPT !.summing_cols = IF summing_cols.some
                             THEN KeysExpressionOrColumn(summing_cols.items)
                             ELSE NoObj]

Buffer(database, table, num_layers, min_time, max_time, min_rows, max_rows, min_bytes, max_bytes) ==
    [cls |-> "Buffer", table |-> "",
     database |-> database, table_name |-> table,
     num_layers |-> IF num_layers.some THEN num_layers.int ELSE DefaultNumLayers,
     min_time |-> IF min_time.some THEN min_time.int ELSE DefaultMinTime,
     max_time |-> IF max_time.some THEN max_time.int ELSE DefaultMaxTime,
     min_rows |-> IF min_rows.some THEN min_rows.int ELSE DefaultMinRows,
     max_rows |-> IF max_rows.some THEN max_rows.int ELSE DefaultMaxRows,
     min_bytes |-> IF min_bytes.some THEN min_bytes.int ELSE DefaultMinBytes,
     max_bytes |-> IF max_bytes.some THEN max_bytes.int ELSE DefaultMaxBytes]

Memory == [cls |-> "Memory", table |-> ""]

Merge(db, regexp) == [cls |-> "Merge", table |-> "", db |-> db, regexp |-> regexp]

\* ---------------------------------------------------------------- get_params / name
MergeTreeParamsOk(e) == get_column_ok(e.date_col)

MergeTreeParams(e) ==
    (IF Truthy(e.replica_name)
     THEN <<StrVal(escape_string(e.replica_table_path.chars)),
            StrVal(escape_string(e.replica_name.chars))>>
     ELSE <<>>)
    \o <<get_column(e.date_col)>>
    \o (IF ~e.sampling.isNone
        THEN <<get_expressions_or_columns(e.sampling)[1]>>
        ELSE <<>>)
    \o <<TupleVal(get_expressions_or_columns(e.key_cols))>>
    \o <<IntVal(e.index_granularity)>>

CollapsingParamsOk(e) == MergeTreeParamsOk(e) /\ get_column_ok(e.sign_col)

CollapsingParams(e) == Append(MergeTreeParams(e), get_column(e.sign_col))

\* a get_params that drops an empty summing list
SummingParamsSkipEmpty(e) ==
    IF ~e.summing_cols.isNone /\ e.summing_cols.expressions /= <<>>
    THEN Append(MergeTreeParams(e),
                TupleVal(get_expressions_or_columns(e.summing_cols)))
    ELSE MergeTreeParams(e)

SummingParams(e) ==
    IF ~e.summing_cols.isNone
    THEN Append(MergeTreeParams(e),
                TupleVal(get_expressions_or_columns(e.summing_cols)))
    ELSE MergeTreeParams(e)

BufferParams(e) ==
    <<StrVal(e.database), StrVal(e.table_name), IntVal(e.num_layers),
      IntVal(e.min_time), IntVal(e.max_time), IntVal(e.min_rows),
      IntVal(e.max_rows), IntVal(e.min_bytes), IntVal(e.max_bytes)>>

MemoryParams(e) == <<>>

\* a get_params that escapes db as well
MergeParamsEscapeBoth(e) ==
    <<StrVal(escape_string(e.db)), StrVal(escape_string(e.regexp))>>

MergeParams(e) == <<StrVal(e.db), StrVal(escape_string(e.regexp))>>

\* whether get_params returns (TRUE) or raises IndexError (FALSE)
get_params_ok(e) ==
    CASE e.cls = "CollapsingMergeTree" -> CollapsingParamsOk(e)
      [] e.cls \in {"MergeTree", "SummingMergeTree"} -> MergeTreeParamsOk(e)
      [] OTHER -> TRUE

get_params(e) ==
    CASE e.cls = "MergeTree" -> MergeTreeParams(e)
      [] e.cls = "CollapsingMergeTree" -> CollapsingParams(e)
      [] e.cls = "SummingMergeTree" -> SummingParams(e)
      [] e.cls = "Buffer" -> BufferParams(e)
      [] e.cls = "Memory" -> MemoryParams(e)
      [] OTHER -> MergeParams(e)

EngineName(e) == <<e.cls>>

\* a name that tests replica_name for None instead of for truth
MergeTreeNameIfGiven(e) ==
    (IF e.replica_name.some THEN <<"Replicated">> ELSE <<>>) \o <<e.cls>>

MergeTreeName(e) ==
    (IF Truthy(e.replica_name) THEN <<"Replicated">> ELSE <<>>) \o <<e.cls>>

name(e) == IF e.cls \in MergeTreeFamily THEN MergeTreeName(e) ELSE EngineName(e)

\* ---------------------------------------------------------------- _set_parent
\* Engine._set_parent: the back-reference; table.engine is set by the action
EngineSetParent(e, table) == [e EXCEPT !.table = table]

\* MergeTree._set_parent: [eng |-> the descriptor afterwards, ok |-> FALSE when
\* a child raised KeyError, which ends the call where it stands]
MergeTreeSetParent(e, table) ==
    LET e0 == EngineSetParent(e, table)
        e1 == [e0 EXCEPT !.date_col = ColSetParent(@, table)]
        e2 == [e1 EXCEPT !.key_cols = ColSetParent(@, table)]
        e3 == [e2 EXCEPT !.sampling = ColSetParent(@, table)]
    IN  IF ~CanBind(e.date_col, table) THEN [eng |-> e1, ok |-> FALSE]
        ELSE IF ~CanBind(e.key_cols, table) THEN [eng |-> e2, ok |-> FALSE]
        ELSE IF ~e.sampling.isNone
             THEN [eng |-> e3, ok |-> CanBind(e.sampling, table)]
             ELSE [eng |-> e2, ok |-> TRUE]

CollapsingSetParent(e, table) ==
    LET r == MergeTreeSetParent(e, table)
    IN  IF ~r.ok THEN r
        ELSE [eng |-> [r.eng EXCEPT !.sign_col = ColSetParent(@, table)],
              ok |-> CanBind(e.sign_col, table)]

SummingSetParent(e, table) ==
    LET r == MergeTreeSetParent(e, table)
    IN  IF ~r.ok THEN r
        ELSE IF ~e.summing_cols.isNone
             THEN [eng |-> [r.eng EXCEPT !.summing_cols = ColSetParent(@, table)],
                   ok |-> CanBind(e.summing_cols, table)]
             ELSE r

set_parent(e, table) ==
    CASE e.cls = "MergeTree" -> MergeTreeSetParent(e, table)
      [] e.cls = "CollapsingMergeTree" -> CollapsingSetParent(e, table)
      [] e.cls = "SummingMergeTree" -> SummingSetParent(e, table)
      [] OTHER -> [eng |-> EngineSetParent(e, table), ok |-> TRUE]

\* ---------------------------------------------------------------- inputs
KeyLists == SeqsUpTo(Items, MaxKeyLen)
SamplingArgs == {<<>>, <<NameItem("b")>>, <<TextExpr("x")>>}
GranularityArgs == {NoneInt, SomeInt(0), SomeInt(-1)}
ReplicaNames == {NoneStr, SomeStr(<<>>), SomeStr(<<"r">>)}
ReplicaPaths == {NoneStr, SomeStr(<<>>), SomeStr(<<"/", "p">>)}
NoneList == [some |-> FALSE, items |-> <<>>]
SummingArgs == {NoneList} \cup {[some |-> TRUE, items |-> s] : s \in SeqsUpTo(SumItems, MaxSumLen)}
Strings == {<<"d">>, <<"e", "'">>, <<"\\">>}
LayerArgs == {NoneInt, SomeInt(1)}

Args(sampling, index_granularity, replica_name, replica_table_path, summing_cols) ==
    [sampling |-> sampling, index_granularity |-> index_granularity,
     replica_name |-> replica_name, replica_table_path |-> replica_table_path,
     summing_cols |-> summing_cols]
NoArgs == Args(<<>>, NoneInt, NoneStr, NoneStr, NoneList)

Returned(op, arg, val) == [op |-> op, arg |-> arg, ok |-> TRUE, err |-> "", val |-> val]
Raised(op, arg, err) == [op |-> op, arg |-> arg, ok |-> FALSE, err |-> err, val |-> <<>>]

\* ---------------------------------------------------------------- actions
Init ==
    /\ eng = NoEngine
    /\ tableEngine = [t \in Tables |-> FALSE]
    /\ phase = "NoEngine"
    /\ attachCalls = 0
    /\ res = Returned("", "", <<>>)
    /\ ctorArgs = NoArgs

Constructed(e) ==
    /\ eng' = e
    /\ phase' = "Declared"
    /\ res' = Returned("__init__", e.cls, <<>>)
    /\ UNCHANGED <<tableEngine, attachCalls>>

NewMergeTree ==
    /\ phase = "NoEngine"
    /\ \E date_col \in Names, key_expressions \in KeyLists, sampling \in SamplingArgs,
          index_granularity \in GranularityArgs,
          replica_name \in ReplicaNames, replica_table_path \in ReplicaPaths :
          /\ ctorArgs' = Args(sampling, index_granularity, replica_name,
                               replica_table_path, NoneList)
          /\ IF ReplicaMismatch(replica_name, replica_table_path)
             THEN /\ res' = Raised("__init__", "MergeTree", "Exception")
                  /\ UNCHANGED <<eng, tableEngine, phase, attachCalls>>
             ELSE Constructed(MergeTree("MergeTree", date_col, key_expressions,
                                        sampling, index_granularity,
                                        replica_name, replica_table_path))

NewCollapsingMergeTree ==
    /\ phase = "NoEngine"
    /\ \E date_col \in Names, key_expressions \in KeyLists, sign_col \in Names,
          sampling \in SamplingArgs, index_granularity \in GranularityArgs :
          /\ ctorArgs' = Args(sampling, index_granularity, NoneStr, NoneStr, NoneList)
          /\ Constructed(CollapsingMergeTree(date_col, key_expressions, sign_col,
                                             sampling, index_granularity))

NewSummingMergeTree ==
    /\ phase = "NoEngine"
    /\ \E date_col \in Names, key_expressions \in KeyLists, summing_cols \in SummingArgs,
          sampling \in SamplingArgs, index_granularity \in GranularityArgs :
          /\ ctorArgs' = Args(sampling, index_granularity, NoneStr, NoneStr,
                               summing_cols)
          /\ Constructed(SummingMergeTree(date_col, key_expressions, summing_cols,
                                          sampling, index_granularity))

NewBuffer ==
    /\ phase = "NoEngine"
    /\ \E database \in Strings, table \in Strings,
          num_layers \in LayerArgs, max_rows \in LayerArgs :
          /\ ctorArgs' = NoArgs
          /\ Constructed(Buffer(database, table, num_layers, NoneInt, NoneInt,
                                NoneInt, max_rows, NoneInt, NoneInt))

NewMemory ==
    /\ phase = "NoEngine"
    /\ ctorArgs' = NoArgs
    /\ Constructed(Memory)

NewMerge ==
    /\ phase = "NoEngine"
    /\ \E db \in Strings, regexp \in Strings :
          /\ ctorArgs' = NoArgs
          /\ Constructed(Merge(db, regexp))

\* table construction hands the table to the descriptor: engine._set_parent(table)
SetParentCall(table) ==
    /\ phase /= "NoEngine"
    /\ LET r == set_parent(eng, table)
       IN  /\ eng' = r.eng
           /\ tableEngine' = [tableEngine EXCEPT ![table] = TRUE]
           /\ phase' = IF r.ok THEN "Attached"
                       ELSE IF phase = "Declared" THEN "Failed" ELSE phase
           /\ attachCalls' = IF attachCalls < 2 THEN attachCalls + 1 ELSE attachCalls
           /\ res' = IF r.ok THEN Returned("_set_parent", table, <<>>)
                     ELSE Raised("_set_parent", table, "KeyError")
    /\ UNCHANGED ctorArgs

\* a get_params that consumes the key columns it reads
GetParamsCallDraining ==
    /\ phase /= "NoEngine"
    /\ res' = IF get_params_ok(eng) THEN Returned("get_params", "", get_params(eng))
              ELSE Raised("get_params", "", "IndexError")
    /\ eng' = IF eng.cls \in MergeTreeFamily
              THEN [eng EXCEPT !.key_cols.columns = <<>>]
              ELSE eng
    /\ UNCHANGED <<tableEngine, phase, attachCalls, ctorArgs>>

GetParamsCall ==
    /\ phase /= "NoEngine"
    /\ res' = IF get_params_ok(eng) THEN Returned("get_params", "", get_params(eng))
              ELSE Raised("get_params", "", "IndexError")
    /\ UNCHANGED <<eng, tableEngine, phase, attachCalls, ctorArgs>>

NameCall ==
    /\ phase /= "NoEngine"
    /\ res' = Returned("name", "", <<StrVal(name(eng))>>)
    /\ UNCHANGED <<eng, tableEngine, phase, attachCalls, ctorArgs>>

\* date_col.get_column() of a MergeTree-family descriptor
GetColumnCall ==
    /\ eng.cls \in MergeTreeFamily
    /\ res' = IF get_column_ok(eng.date_col)
              THEN Returned("get_column", "", <<get_column(eng.date_col)>>)
              ELSE Raised("get_column", "", "IndexError")
    /\ UNCHANGED <<eng, tableEngine, phase, attachCalls, ctorArgs>>

\* key_cols.get_expressions_or_columns() of a MergeTree-family descriptor
GetExpressionsOrColumnsCall ==
    /\ eng.cls \in MergeTreeFamily
    /\ res' = Returned("get_expressions_or_columns", "",
                       get_expressions_or_columns(eng.key_cols))
    /\ UNCHANGED <<eng, tableEngine, phase, attachCalls, ctorArgs>>

Next ==
    \/ NewMergeTree
    \/ NewCollapsingMergeTree
    \/ NewSummingMergeTree
    \/ NewBuffer
    \/ NewMemory
    \/ NewMerge
    \/ \E table \in Tables : SetParentCall(table)
    \/ GetParamsCall
    \/ NameCall
    \/ GetColumnCall
    \/ GetExpressionsOrColumnsCall

Spec == Init /\ [][Next]_vars

\* ---------------------------------------------------------------- properties
Calls == {"get_params", "name", "get_column", "get_expressions_or_columns"}

\* attached by one _set_parent call, which succeeded
AttachedOnce == phase = "Attached" /\ attachCalls = 1

DeclaredName(tc) == tc.pending[1].name

\* what a key input should render as once resolved against table
ResolvedSlot(x, table) == IF x.kind = "name" THEN Column(table, x.name) ELSE x

\* C1: after one successful attach, get_expressions_or_columns() of the key has
\* the length of the input list, holds every SQL expression unchanged at its
\* position, and holds at every bare-name position the table's column of that
\* name, whatever the interleaving.
C1_RenderedRoundTrip ==
    (/\ eng.cls \in MergeTreeFamily
     /\ AttachedOnce
     /\ res.op = "get_expressions_or_columns")
    => /\ Len(res.val) = Len(eng.key_cols.expressions)
       /\ \A i \in 1..Len(eng.key_cols.expressions) :
             /\ i <= Len(res.val)
             /\ res.val[i] = ResolvedSlot(eng.key_cols.expressions[i], eng.table)

\* the fields a failed attach must leave alone
Bindings(e) ==
    IF e.cls \in MergeTreeFamily
    THEN <<e.table, e.date_col.columns, e.key_cols.columns, e.sampling.columns,
           e.sign_col.columns, e.summing_cols.columns>>
    ELSE <<e.table>>

\* C2: a _set_parent call that raises for a column name the table lacks leaves
\* the descriptor's table back-reference, the table's engine reference and the
\* columns of every child as they were before the call.
C2_FailedAttachBindsNothing ==
    [][(res'.op = "_set_parent" /\ ~res'.ok)
       => (/\ res'.err = "KeyError"
           /\ Bindings(eng') = Bindings(eng)
           /\ tableEngine' = tableEngine)]_vars

\* both replication coordinates were given as non-empty strings
Replicated == Truthy(ctorArgs.replica_name) /\ Truthy(ctorArgs.replica_table_path)

\* C3: get_params() of an attached MergeTree is, in this order, the escaped
\* replica_table_path and replica_name if replicated, the resolved date column,
\* the rendered sampling item if sampling was given, the rendered key as one
\* tuple, and the index granularity: 8192 when omitted, else the given integer.
C3_MergeTreeParams ==
    (/\ eng.cls = "MergeTree"
     /\ AttachedOnce
     /\ res.op = "get_params")
    => /\ res.ok
       /\ res.val =
            (IF Replicated
             THEN <<StrVal(escape_string(ctorArgs.replica_table_path.chars)),
                    StrVal(escape_string(ctorArgs.replica_name.chars))>>
             ELSE <<>>)
            \o <<Column(eng.table, DeclaredName(eng.date_col))>>
            \o (IF ctorArgs.sampling /= <<>>
                THEN <<get_expressions_or_columns(eng.sampling)[1]>>
                ELSE <<>>)
            \o <<TupleVal(get_expressions_or_columns(eng.key_cols))>>
            \o <<IntVal(IF ctorArgs.index_granularity.some
                        THEN ctorArgs.index_granularity.int
                        ELSE 8192)>>
       /\ Len(res.val) = (IF Replicated THEN 2 ELSE 0) + 1
                         + (IF ctorArgs.sampling /= <<>> THEN 1 ELSE 0) + 1 + 1

C3_Witness ==
    /\ eng.cls = "MergeTree"
    /\ AttachedOnce
    /\ res.op = "get_params"
    /\ res.ok
    /\ Replicated
    /\ ctorArgs.sampling /= <<>>
    /\ ctorArgs.index_granularity = SomeInt(0)
    /\ Len(res.val) = 6

\* C4: constructing a MergeTree fails exactly when one of replica_name and
\* replica_table_path is given and the other is not, for every string given,
\* the empty string included.
C4_ReplicaPairValidated ==
    (res.op = "__init__" /\ res.arg = "MergeTree")
    => (res.ok <=> (ctorArgs.replica_name.some <=> ctorArgs.replica_table_path.some))

\* C1 is refuted from a state where the key was rendered after one attach
C1_Attached ==
    /\ eng.cls \in MergeTreeFamily
    /\ AttachedOnce
    /\ res.op = "get_expressions_or_columns"

\* C5: in the Declared state, before any _set_parent call, every call of
\* get_params, name, get_column and get_expressions_or_columns raises; none
\* returns a value, a None placeholder for an unresolved column included.
C5_DeclaredCallsFail ==
    (phase = "Declared" /\ res.op \in Calls) => ~res.ok

\* C6: once a _set_parent call has succeeded, every later _set_parent call is
\* rejected, and no call changes the table back-reference or the resolved
\* columns, which are non-null.
C6_AttachOnce ==
    [][(phase = "Attached")
       => (/\ res'.op = "_set_parent" => ~res'.ok
           /\ Bindings(eng') = Bindings(eng)
           /\ eng.cls \in MergeTreeFamily => eng'.date_col.columns /= <<>>)]_vars

\* C7: get_params() of an attached CollapsingMergeTree is the MergeTree
\* parameters of the same descriptor followed by the resolved sign column; of
\* an attached SummingMergeTree it is the MergeTree parameters followed by the
\* rendered summing tuple when summing_cols was given (an empty list included)
\* and the MergeTree parameters alone when it was omitted.
C7_SubclassParams ==
    (AttachedOnce /\ res.op = "get_params")
    => /\ eng.cls = "CollapsingMergeTree"
            => (/\ res.ok
                /\ res.val = MergeTreeParams(eng)
                             \o <<Column(eng.table, DeclaredName(eng.sign_col))>>)
       /\ eng.cls = "SummingMergeTree"
            => (/\ res.ok
                /\ res.val = MergeTreeParams(eng)
                             \o (IF ctorArgs.summing_cols.some
                                 THEN <<TupleVal(get_expressions_or_columns(
                                                     eng.summing_cols))>>
                                 ELSE <<>>))

C7_Witness ==
    /\ AttachedOnce
    /\ res.op = "get_params"
    /\ eng.cls = "SummingMergeTree"
    /\ ctorArgs.summing_cols.some
    /\ ctorArgs.summing_cols.items = <<>>
    /\ res.val[Len(res.val)] = TupleVal(<<>>)

\* C8: after attach, a get_params() or name() call changes no field of the
\* descriptor, of its children or of the tables, and returns what the same call
\* returned the time before and what it will return the next time.
C8_CallsArePure ==
    [][(phase = "Attached" /\ res'.op \in {"get_params", "name"})
       => (/\ eng' = eng
           /\ tableEngine' = tableEngine
           /\ res.op = res'.op => res' = res
           /\ res'.op = "name" => res'.val = <<StrVal(name(eng'))>>
           /\ (res'.op = "get_params" /\ res'.ok) => res'.val = get_params(eng'))]_vars

C8_Witness ==
    /\ phase = "Attached"
    /\ eng.cls = "SummingMergeTree"
    /\ res.op = "get_params"
    /\ res.ok
    /\ Len(res.val) = 5

IsEscaped(v, s) == v = StrVal(escape_string(s))

\* C9: get_params() escapes replica_table_path, replica_name and Merge.regexp
\* and nothing else: Merge gives [db, escape(regexp)] with db as given, Buffer
\* its nine fields in declaration order as given, Memory nothing, and in the
\* MergeTree family the only strings are the two escaped coordinates in front.
C9_EscapedFields ==
    (res.op = "get_params" /\ res.ok)
    => /\ eng.cls = "Merge"
            => (/\ res.val = <<StrVal(eng.db), StrVal(escape_string(eng.regexp))>>
                /\ res.val[1].chars /= escape_string(eng.db))
       /\ eng.cls = "Buffer"
            => res.val = <<StrVal(eng.database), StrVal(eng.table_name),
                           IntVal(eng.num_layers), IntVal(eng.min_time),
                           IntVal(eng.max_time), IntVal(eng.min_rows),
                           IntVal(eng.max_rows), IntVal(eng.min_bytes),
                           IntVal(eng.max_bytes)>>
       /\ eng.cls = "Memory" => res.val = <<>>
       /\ eng.cls \in MergeTreeFamily
            => \A i \in 1..Len(res.val) :
                  res.val[i].kind = "str"
                  => (/\ Replicated
                      /\ i = 1 => IsEscaped(res.val[i], ctorArgs.replica_table_path.chars)
                      /\ i = 2 => IsEscaped(res.val[i], ctorArgs.replica_name.chars)
                      /\ i <= 2)
       /\ (eng.cls \in MergeTreeFamily /\ Replicated)
            => (res.val[1].kind = "str" /\ res.val[2].kind = "str")

C9_Witness ==
    /\ res.op = "get_params"
    /\ eng.cls = "Merge"
    /\ eng.db = <<"e", "'">>
    /\ eng.regexp = <<"e", "'">>
    /\ res.val = <<StrVal(<<"e", "'">>), StrVal(<<"'", "e", "\\", "'", "'">>)>>

ReplicatedPrefix(e, params) ==
    /\ Len(params) >= 2
    /\ e.replica_table_path.some
    /\ e.replica_name.some
    /\ params[1] = StrVal(escape_string(e.replica_table_path.chars))
    /\ params[2] = StrVal(escape_string(e.replica_name.chars))

DatePrefix(e, params) ==
    /\ Len(params) >= 1
    /\ params[1] = Column(e.table, DeclaredName(e.date_col))

\* C10: for a MergeTree-family descriptor, name() is "Replicated" + the type
\* name exactly when get_params() begins with the two escaped coordinates, both
\* present, and is the bare type name exactly when get_params() begins with
\* the date column.
C10_NameAgreesWithParams ==
    (eng.cls \in MergeTreeFamily /\ AttachedOnce /\ get_params_ok(eng))
    => /\ res.op = "name"
            => (/\ res.val \in {<<StrVal(<<"Replicated", eng.cls>>)>>,
                                <<StrVal(<<eng.cls>>)>>}
                /\ res.val = <<StrVal(<<"Replicated", eng.cls>>)>>
                      <=> ReplicatedPrefix(eng, get_params(eng))
                /\ res.val = <<StrVal(<<eng.cls>>)>>
                      <=> DatePrefix(eng, get_params(eng)))
       /\ (res.op = "get_params" /\ res.ok)
            => (/\ ReplicatedPrefix(eng, res.val)
                      <=> name(eng) = <<"Replicated", eng.cls>>
                /\ DatePrefix(eng, res.val) <=> name(eng) = <<eng.cls>>)

C10_Witness ==
    /\ eng.cls = "MergeTree"
    /\ AttachedOnce
    /\ res.op = "name"
    /\ res.val = <<StrVal(<<"Replicated", "MergeTree">>)>>
    /\ ReplicatedPrefix(eng, get_params(eng))

====
